---- MODULE Spec2Model ----
(***************************************************************************)
(* Order checkout and payment reconciliation of Digital-E-Commerce-V1.     *)
(*                                                                         *)
(* The database (MySQL through Prisma) is the only shared state.  Every    *)
(* `await` of a handler is a point where other requests may run, so each   *)
(* handler is cut into one action per awaited database or gateway call.    *)
(* A Prisma interactive transaction stages its writes and makes them       *)
(* visible together at commit, or not at all when a statement throws.      *)
(*                                                                         *)
(* Money.  A JavaScript number x is represented by the integer x * 10000,  *)
(* a DECIMAL(10,2) column by the integer number of hundredths (cents).     *)
(* Sums, differences and percentages of the numbers here are exact; the    *)
(* binary64 error of amount * 100 is kept where it decides a rounding.     *)
(***************************************************************************)
EXTENDS Integers, FiniteSets, Sequences, TLC

\* Number of createOrder requests that may be in flight.
NumCalls == 2

\* Number of webhook deliveries that may be in flight.
NumDeliveries == 2

Calls == 1..NumCalls

Deliveries == 1..NumDeliveries

\* An order created by request c gets the identifier c (Prisma's cuid, unique).
OrderIds == Calls

Users == {"u1", "u2"}

\* dto.discountCode as sent by the client: absent, the code in either
\* letter case, or a code that does not exist.
DtoCodes == {"", "SAVE50", "save50", "NOPE"}

\* String.prototype.toUpperCase on the codes above.
ToUpperCase(s) == IF s = "save50" THEN "SAVE50" ELSE s

\* Readings of the wall clock (new Date()).
Times == {1, 2, 3}

VARIABLES
    cartItems,      \* cart_items rows of each user's cart
    discountCodes,  \* discount_codes rows, by code
    discountUsages, \* discount_usages rows
    orders,         \* orders rows, by id
    orderItems,     \* order_items rows, by order id
    payments,       \* payments rows, by order id
    paymentWrites,  \* per order: committed webhook transactions so far
    calls,          \* createOrder requests: position and local variables
    deliveries,     \* webhook deliveries: position and local variables
    config,         \* ConfigService: the PAYMOB_* settings of the process
    products,       \* products rows, by id: the live price in cents
    cartCache,      \* Redis: the value under cart:{userId}, while it is set
    cartCalls       \* CartService requests: position and local variables

dbVars == <<cartItems, discountCodes, discountUsages, orders, orderItems, payments>>

vars == <<cartItems, discountCodes, discountUsages, orders, orderItems, payments,
          paymentWrites, calls, deliveries, config,
          products, cartCache, cartCalls>>

cartVars == <<products, cartCache, cartCalls>>

(***************************************************************************)
(* Numbers and decimals                                                    *)
(***************************************************************************)

\* Number(decimal): a DECIMAL(10,2) value read into a JavaScript number.
Number(cents) == cents * 100

\* A JavaScript number written to a DECIMAL(10,2) column: MySQL rounds the
\* excess fraction half away from zero (values here are never negative).
ToDecimal2(n) == (n + 50) \div 100

\* Math.min
Min(a, b) == IF a < b THEN a ELSE b

\* An optional column is the empty set (NULL) or a singleton.
IsNull(opt) == opt = {}

ValueOf(opt) == CHOOSE v \in opt : TRUE

\* JavaScript truthiness of an optional integer: NULL and 0 are falsy.
Truthy(opt) == \E v \in opt : v # 0

(***************************************************************************)
(* calculateDiscount                                                       *)
(***************************************************************************)

\* subtotal, value and maxDiscount are JavaScript numbers; maxDiscount is
\* optional (null).  (subtotal * value) / 100 on the representation is
\* subtotal * value / 1000000; value comes from a DECIMAL(10,2) column, so
\* value \div 100 loses nothing, and the quotient is exact for the whole
\* percentages CreateDiscountCodeDto admits.
calculateDiscount(subtotal, type, value, maxDiscount) ==
    LET pct == (subtotal * (value \div 100)) \div 10000
        discount ==
            IF type = "PERCENTAGE"
            THEN IF Truthy(maxDiscount) /\ pct > ValueOf(maxDiscount)
                 THEN ValueOf(maxDiscount)
                 ELSE pct
            ELSE value
    IN  Min(discount, subtotal)

(***************************************************************************)
(* Rows                                                                    *)
(***************************************************************************)

\* cart_items rows: priceAtAdd is the product price captured by addItem.
CartOfU1 == {[id |-> "ci1", productId |-> "p1", priceAtAdd |-> 99]}

CartOfU2 == {[id |-> "ci2", productId |-> "p1", priceAtAdd |-> 99],
             [id |-> "ci3", productId |-> "p2", priceAtAdd |-> 150]}

\* discount_codes rows an administrator may have created (usageCount 0).
HalfOff ==
    [id |-> "d1", code |-> "SAVE50", discountType |-> "PERCENTAGE",
     discountValue |-> 5000, maxDiscount |-> {}, minPurchase |-> {},
     usageLimit |-> {1}, usageCount |-> 0, perUserLimit |-> {1},
     isActive |-> TRUE, startsAt |-> {}, expiresAt |-> {}]

OnePoundOff ==
    [id |-> "d1", code |-> "SAVE50", discountType |-> "FIXED_AMOUNT",
     discountValue |-> 100, maxDiscount |-> {}, minPurchase |-> {50},
     usageLimit |-> {}, usageCount |-> 0, perUserLimit |-> {},
     isActive |-> TRUE, startsAt |-> {2}, expiresAt |-> {2}]

DiscountConfigs == {HalfOff, OnePoundOff}

\* A request that has not arrived yet.
IdleCall ==
    [pc |-> "idle", userId |-> "", code |-> "", cart |-> {}, product |-> <<>>,
     discount |-> {},
     subtotal |-> 0, discountAmount |-> 0, total |-> 0, staged |-> {},
     gateway |-> <<>>, status |-> 0, result |-> "", paymentUrl |-> {}]

(***************************************************************************)
(* OrdersService.createOrder                                               *)
(***************************************************************************)

\* cart.items.reduce((sum, item) => sum + Number(item.priceAtAdd), 0)
RECURSIVE Subtotal(_)
Subtotal(items) ==
    IF items = {} THEN 0
    ELSE LET i == CHOOSE x \in items : TRUE
         IN  Number(i.priceAtAdd) + Subtotal(items \ {i})

\* The response to the client: the HTTP status and the message of the body.
\* HttpExceptionsFilter answers an HttpException with its own status and
\* message; any other error gets the framework's 500 "Internal server
\* error".
Respond(call, pc, status, message) ==
    [call EXCEPT !.pc = pc, !.status = status, !.result = message]

\* Reject throwing an error that is no HttpException.
RejectAsServerError(call, message) ==
    Respond(call, "rejected", 500, "Internal server error")

\* throw new BadRequestException(message)
Reject(call, message) == Respond(call, "rejected", 400, message)

\* The synchronous tail of the validation: discount amount, total, the
\* check of the total, and the entry into the transaction.
PriceOrder(call, discount) ==
    LET discountAmount ==
            IF IsNull(discount) THEN 0
            ELSE LET d == ValueOf(discount)
                 IN  calculateDiscount(
                         call.subtotal, d.discountType, Number(d.discountValue),
                         IF IsNull(d.maxDiscount) THEN {}
                         ELSE {Number(ValueOf(d.maxDiscount))})
        total == call.subtotal - discountAmount
    IN  IF total <= 0
        THEN Reject([call EXCEPT !.discount = discount,
                                 !.discountAmount = discountAmount,
                                 !.total = total],
                    "Order total cannot be zero or negative")
        ELSE [call EXCEPT !.pc = "txOrder", !.discount = discount,
                          !.discountAmount = discountAmount, !.total = total]

\* The minimum purchase check, the last one of validateAndGetDiscount.
CheckMinPurchase(call, d) ==
    IF ~IsNull(d.minPurchase) /\ call.subtotal < Number(ValueOf(d.minPurchase))
    THEN Reject(call, "Minimum purchase required for this discount")
    ELSE PriceOrder(call, {d})

\* validateAndGetDiscount up to the per-user count: the lookup of the code
\* and the checks made on the row that was read.
CheckDiscountRow(call, now) ==
    LET code == ToUpperCase(call.code)
    IN  IF code \notin DOMAIN discountCodes
        THEN Reject(call, "Invalid discount code")
        ELSE LET d == discountCodes[code]
             IN  IF ~d.isActive
                 THEN Reject(call, "This discount code is no longer active")
                 ELSE IF ~IsNull(d.startsAt) /\ ValueOf(d.startsAt) > now
                 THEN Reject(call, "This discount code is not yet active")
                 ELSE IF ~IsNull(d.expiresAt) /\ ValueOf(d.expiresAt) < now
                 THEN Reject(call, "This discount code has expired")
                 ELSE IF Truthy(d.usageLimit) /\ d.usageCount >= ValueOf(d.usageLimit)
                 THEN Reject(call, "This discount code has been fully used")
                 ELSE IF Truthy(d.perUserLimit)
                 THEN [call EXCEPT !.pc = "countUsage", !.discount = {d}]
                 ELSE CheckMinPurchase(call, d)

\* UserUsageCount without the userId filter: every user's rows count.
CodeUsageCount(discountCodeId, userId) ==
    Cardinality({u \in discountUsages : u.discountCodeId = discountCodeId})

\* prisma.discountUsage.count({ where: { discountCodeId, userId } })
UserUsageCount(discountCodeId, userId) ==
    Cardinality({u \in discountUsages :
                    u.discountCodeId = discountCodeId /\ u.userId = userId})

\* include: { product: true }: the products rows of the items, by product.
IncludedProducts(items, rows) == [p \in {i.productId : i \in items} |-> rows[p]]

\* The request arrives and reads the cart with its items and their
\* products.
ReadCart(c) ==
    /\ calls[c].pc = "idle"
    /\ \E userId \in Users, code \in DtoCodes :
          LET call == [IdleCall EXCEPT !.userId = userId, !.code = code]
          IN  IF userId \notin DOMAIN cartItems \/ cartItems[userId] = {}
              THEN calls' = [calls EXCEPT ![c] = Reject(call, "Your cart is empty")]
              ELSE LET read == [call EXCEPT
                                   !.cart = cartItems[userId],
                                   !.product = IncludedProducts(cartItems[userId], products),
                                   !.subtotal = Subtotal(cartItems[userId])]
                   IN  calls' = [calls EXCEPT ![c] =
                           IF code # ""
                           THEN [read EXCEPT !.pc = "findDiscount"]
                           ELSE PriceOrder(read, {})]
    /\ UNCHANGED <<dbVars, paymentWrites, deliveries, config, cartVars>>

\* prisma.discountCode.findUnique and the checks on the row.
FindDiscount(c) ==
    /\ calls[c].pc = "findDiscount"
    /\ \E now \in Times :
          calls' = [calls EXCEPT ![c] = CheckDiscountRow(calls[c], now)]
    /\ UNCHANGED <<dbVars, paymentWrites, deliveries, config, cartVars>>

\* prisma.discountUsage.count and the per-user check.
CountUsage(c) ==
    /\ calls[c].pc = "countUsage"
    /\ LET call == calls[c]
           d == ValueOf(call.discount)
       IN  calls' = [calls EXCEPT ![c] =
               IF UserUsageCount(d.id, call.userId) >= ValueOf(d.perUserLimit)
               THEN Reject(call, "You have already used this discount code the maximum number of times")
               ELSE CheckMinPurchase(call, d)]
    /\ UNCHANGED <<dbVars, paymentWrites, deliveries, config, cartVars>>

(***************************************************************************)
(* The checkout transaction: prisma.$transaction(async (tx) => ...)        *)
(***************************************************************************)

\* The orders row of tx.order.create, as the DECIMAL(10,2) columns keep it.
OrderRow(call) ==
    [userId |-> call.userId,
     subtotal |-> ToDecimal2(call.subtotal),
     discountAmount |-> ToDecimal2(call.discountAmount),
     total |-> ToDecimal2(call.total),
     discountCodeId |-> IF IsNull(call.discount) THEN {}
                        ELSE {ValueOf(call.discount).id},
     status |-> "PENDING", paidAt |-> FALSE]

\* OrderItemRows with price: item.product.price, the price of the product
\* row read with the cart.
OrderItemRowsAtLivePrice(call) ==
    {[productId |-> i.productId, price |-> call.product[i.productId].price] :
        i \in call.cart}

\* The order_items rows of the nested create: one per cart item read.
OrderItemRows(call) ==
    {[productId |-> i.productId, price |-> i.priceAtAdd] : i \in call.cart}

\* PaymentRow charging the subtotal instead of the total.
PaymentRowOfSubtotal(call) ==
    [amount |-> ToDecimal2(call.subtotal), status |-> "PENDING",
     webhookReceived |-> FALSE, paymobTransactionId |-> {},
     paymobOrderId |-> {}, paymentMethod |-> {}, paidAt |-> FALSE,
     failureReason |-> {}, webhookData |-> {}]

\* The payments row of tx.payment.create.
PaymentRow(call) ==
    [amount |-> ToDecimal2(call.total), status |-> "PENDING",
     webhookReceived |-> FALSE, paymobTransactionId |-> {},
     paymobOrderId |-> {}, paymentMethod |-> {}, paidAt |-> FALSE,
     failureReason |-> {}, webhookData |-> {}]

\* The discount_usages row of tx.discountUsage.create.
UsageRow(c, call) ==
    [discountCodeId |-> ValueOf(call.discount).id, userId |-> call.userId,
     orderId |-> c]

\* The increment as a read-modify-write of the row validation had read.
IncrementFromSnapshot(rows, call) ==
    LET read == ValueOf(call.discount)
    IN  [rows EXCEPT ![read.code].usageCount = read.usageCount + 1]

\* usageCount: { increment: 1 } is UPDATE ... SET usageCount = usageCount + 1:
\* it adds to the value the row holds when the statement takes effect.
IncrementUsage(rows, call) ==
    LET code == ValueOf(call.discount).code
    IN  [rows EXCEPT ![code].usageCount = @ + 1]

\* tx.cartItem.deleteMany({ where: { cartId: cart.id } })
DeleteCartItems(rows, call) == [rows EXCEPT ![call.userId] = {}]

\* The database with the statements `staged` of request c made visible.
DbAfter(c, staged) ==
    LET call == calls[c]
    IN  [cartItems |->
             IF "clear" \in staged THEN DeleteCartItems(cartItems, call)
             ELSE cartItems,
         discountCodes |->
             IF "increment" \in staged THEN IncrementUsage(discountCodes, call)
             ELSE discountCodes,
         discountUsages |->
             IF "usage" \in staged THEN discountUsages \cup {UsageRow(c, call)}
             ELSE discountUsages,
         orders |->
             IF "order" \in staged THEN orders @@ (c :> OrderRow(call))
             ELSE orders,
         orderItems |->
             IF "order" \in staged THEN orderItems @@ (c :> OrderItemRows(call))
             ELSE orderItems,
         payments |->
             IF "payment" \in staged THEN payments @@ (c :> PaymentRow(call))
             ELSE payments]

\* The database is replaced by db.
SetDb(db) ==
    /\ cartItems' = db.cartItems
    /\ discountCodes' = db.discountCodes
    /\ discountUsages' = db.discountUsages
    /\ orders' = db.orders
    /\ orderItems' = db.orderItems
    /\ payments' = db.payments

\* One statement of the transaction succeeds: it is staged, invisible to
\* every other request until the commit.
Stage(c, at, statement, next) ==
    /\ calls[c].pc = at
    /\ calls' = [calls EXCEPT ![c].pc = next, ![c].staged = @ \cup {statement}]
    /\ UNCHANGED <<dbVars, paymentWrites, deliveries, config, cartVars>>

TxCreateOrder(c) == Stage(c, "txOrder", "order", "txPayment")

\* if (discountCodeId) decides whether the two discount statements run.
TxCreatePayment(c) ==
    Stage(c, "txPayment", "payment",
          IF IsNull(calls[c].discount) THEN "txClear" ELSE "txUsage")

TxCreateUsage(c) == Stage(c, "txUsage", "usage", "txIncrement")

TxIncrementUsage(c) == Stage(c, "txIncrement", "increment", "txClear")

\* TxClearCart with createPayment called inside the transaction callback.
TxClearCartThenPay(c) == Stage(c, "txClear", "clear", "getAuthToken")

TxClearCart(c) == Stage(c, "txClear", "clear", "txCommit")

TxPcs == {"txOrder", "txPayment", "txUsage", "txIncrement", "txClear", "txCommit"}

\* The callback returned: the transaction commits all staged statements.
TxCommit(c) ==
    /\ calls[c].pc = "txCommit"
    /\ SetDb(DbAfter(c, calls[c].staged))
    /\ calls' = [calls EXCEPT ![c].pc = "committed"]
    /\ UNCHANGED <<paymentWrites, deliveries, config, cartVars>>

\* TxFail with the statements issued outside any transaction: what had
\* run stays.
TxFailKeepsWrites(c) ==
    /\ calls[c].pc \in TxPcs
    /\ SetDb(DbAfter(c, calls[c].staged))
    /\ calls' = [calls EXCEPT ![c] =
                     Respond(@, "txFailed", 500, "Internal server error")]
    /\ UNCHANGED <<paymentWrites, deliveries, config, cartVars>>

\* The statement about to run (or the commit) throws: Prisma rolls the
\* transaction back and createOrder rejects with the error.  staged keeps
\* the statements that had run and were rolled back.
TxFail(c) ==
    /\ calls[c].pc \in TxPcs
    /\ calls' = [calls EXCEPT ![c] =
                     Respond(@, "txFailed", 500, "Internal server error")]
    /\ UNCHANGED <<dbVars, paymentWrites, deliveries, config, cartVars>>

(***************************************************************************)
(* After the commit: the user lookup and PaymentService.createPayment      *)
(***************************************************************************)

\* The settings the tests of PaymentService run with.
FullConfig ==
    [PAYMOB_API_KEY |-> {"test-api-key"}, PAYMOB_INTEGRATION_ID |-> {12345},
     PAYMOB_IFRAME_ID |-> {67890}, PAYMOB_HMAC_SECRET |-> {"test-hmac-secret"}]

\* The JavaScript numbers occurring here whose product with 100 is, in
\* binary64, below the half that the exact product is: 0.565 * 100 is
\* 56.49999999999999.  (0.495 * 100 is 49.5 and 1.245 * 100 is
\* 124.50000000000001.)
BelowHalfTimes100 == {5650}

\* Math.round(amount * 100) of a JavaScript number (never negative here):
\* the product is rounded half up.
AmountCents(amount) ==
    IF amount \in BelowHalfTimes100 THEN amount \div 100
    ELSE (amount + 50) \div 100

\* data.id of Paymob's answer to the registration of order c.
PaymobOrderId(c) == 98764 + c

\* A call of Paymob through axios.post: the endpoint, the fields of the
\* body that identify the amount and the order, and whether Paymob answered
\* with success.
Exchange(api, amountCents, merchantOrderId, orderId, ok) ==
    [api |-> api, amount_cents |-> amountCents,
     merchant_order_id |-> merchantOrderId, order_id |-> orderId, ok |-> ok]

\* The URL createPayment returns.
PaymentUrl(iframeId, paymentKey) ==
    "https://accept.paymob.com/api/acceptance/iframes/" \o ToString(iframeId)
    \o "?payment_token=" \o paymentKey

\* FailPayment with a compensation that removes what checkout committed.
FailPaymentCompensating(c, gateway, status, message) ==
    /\ calls' = [calls EXCEPT ![c] =
                     Respond([@ EXCEPT !.gateway = gateway],
                             "paymentFailed", status, message)]
    /\ orders' = [o \in DOMAIN orders \ {c} |-> orders[o]]
    /\ orderItems' = [o \in DOMAIN orderItems \ {c} |-> orderItems[o]]
    /\ payments' = [o \in DOMAIN payments \ {c} |-> payments[o]]
    /\ UNCHANGED <<cartItems, discountCodes, discountUsages>>

\* A step after the commit throws.  createOrder has no try / catch around
\* the step and the controller none around createOrder: the error goes to
\* the client as it is and nothing that was committed is touched.  gateway
\* is the list of requests sent to Paymob so far.
FailPayment(c, gateway, status, message) ==
    /\ calls' = [calls EXCEPT ![c] =
                     Respond([@ EXCEPT !.gateway = gateway],
                             "paymentFailed", status, message)]
    /\ UNCHANGED dbVars

\* prisma.user.findUnique: the row is returned, or the query throws.
FindUser(c) ==
    /\ calls[c].pc = "committed"
    /\ \E ok \in BOOLEAN :
          IF ok
          THEN /\ calls' = [calls EXCEPT ![c].pc = "getAuthToken"]
               /\ UNCHANGED dbVars
          ELSE FailPayment(c, calls[c].gateway, 500, "Internal server error")
    /\ UNCHANGED <<paymentWrites, deliveries, config, cartVars>>

\* getAuthToken: without PAYMOB_API_KEY no request is sent; otherwise the
\* request is sent and answered with a token or an error.
GetAuthToken(c) ==
    /\ calls[c].pc = "getAuthToken"
    /\ IF IsNull(config.PAYMOB_API_KEY)
       THEN FailPayment(c, calls[c].gateway, 500, "Failed to initialize payment")
       ELSE \E ok \in BOOLEAN :
               LET gateway == Append(calls[c].gateway,
                                     Exchange("auth/tokens", {}, {}, {}, ok))
               IN  IF ok
                   THEN /\ calls' = [calls EXCEPT ![c].pc = "registerOrder",
                                                  ![c].gateway = gateway]
                        /\ UNCHANGED dbVars
                   ELSE FailPayment(c, gateway, 500, "Failed to initialize payment")
    /\ UNCHANGED <<paymentWrites, deliveries, config, cartVars>>

\* RegisterOrder that logs Paymob's error and goes on to the payment key.
RegisterOrderLenient(c) ==
    /\ calls[c].pc = "registerOrder"
    /\ \E ok \in BOOLEAN :
          calls' = [calls EXCEPT
                       ![c].pc = "getPaymentKey",
                       ![c].gateway =
                           Append(@, Exchange("ecommerce/orders",
                                              {AmountCents(calls[c].total)},
                                              {c}, {}, ok))]
    /\ UNCHANGED <<dbVars, paymentWrites, deliveries, config, cartVars>>

\* registerOrder: Paymob is told the amount in cents and our order id.
RegisterOrder(c) ==
    /\ calls[c].pc = "registerOrder"
    /\ \E ok \in BOOLEAN :
          LET gateway == Append(calls[c].gateway,
                                Exchange("ecommerce/orders",
                                         {AmountCents(calls[c].total)},
                                         {c}, {}, ok))
          IN  IF ok
              THEN /\ calls' = [calls EXCEPT ![c].pc = "getPaymentKey",
                                             ![c].gateway = gateway]
                   /\ UNCHANGED dbVars
              ELSE FailPayment(c, gateway, 500, "Failed to register payment")
    /\ UNCHANGED <<paymentWrites, deliveries, config, cartVars>>

\* getPaymentKey and the construction of the URL: without
\* PAYMOB_INTEGRATION_ID no request is sent; with the key in hand a missing
\* PAYMOB_IFRAME_ID throws a plain Error.
GetPaymentKey(c) ==
    /\ calls[c].pc = "getPaymentKey"
    /\ IF ~Truthy(config.PAYMOB_INTEGRATION_ID)
       THEN FailPayment(c, calls[c].gateway, 500, "Failed to generate payment key")
       ELSE \E ok \in BOOLEAN :
               LET gateway == Append(calls[c].gateway,
                                     Exchange("acceptance/payment_keys",
                                              {AmountCents(calls[c].total)}, {},
                                              {PaymobOrderId(c)}, ok))
               IN  IF ~ok
                   THEN FailPayment(c, gateway, 500, "Failed to generate payment key")
                   ELSE IF ~Truthy(config.PAYMOB_IFRAME_ID)
                   THEN FailPayment(c, gateway, 500, "Internal server error")
                   ELSE /\ calls' = [calls EXCEPT ![c] =
                               Respond([@ EXCEPT
                                           !.gateway = gateway,
                                           !.paymentUrl =
                                               {PaymentUrl(ValueOf(config.PAYMOB_IFRAME_ID),
                                                           "payment-key")}],
                                       "returned", 201, "Order created successfully")]
                        /\ UNCHANGED dbVars
    /\ UNCHANGED <<paymentWrites, deliveries, config, cartVars>>

(***************************************************************************)
(* PaymentService.verifyWebhookSignature                                   *)
(***************************************************************************)

\* Template literal conversion of a boolean and of a number.
BoolString(b) == IF b THEN "true" ELSE "false"

NumberString(n) == ToString(n)

\* The fields verifyWebhookSignature takes from its argument, in Paymob's
\* order; order_id stands for order.id.
SignedFields ==
    <<"amount_cents", "created_at", "currency", "error_occured",
      "has_parent_transaction", "id", "integration_id", "is_3d_secure",
      "is_auth", "is_capture", "is_refunded", "is_standalone_payment",
      "is_voided", "order_id", "owner", "pending", "source_data_pan",
      "source_data_sub_type", "source_data_type", "success">>

BooleanFields ==
    {"error_occured", "has_parent_transaction", "is_3d_secure", "is_auth",
     "is_capture", "is_refunded", "is_standalone_payment", "is_voided",
     "pending", "success"}

NumberFields == {"amount_cents", "id", "integration_id", "order_id", "owner"}

\* ${field} in the template literal: a property the object does not have
\* reads as undefined and is written as the text "undefined".
Template(data, field) ==
    IF field \in data.missing THEN "undefined"
    ELSE IF field \in BooleanFields THEN BoolString(data[field])
    ELSE IF field \in NumberFields THEN NumberString(data[field])
    ELSE data[field]

\* Concatenated with amount_cents left out of the signed text.
ConcatenatedWithoutAmount(data) ==
    Template(data, "created_at") \o Template(data, "currency")
    \o Template(data, "error_occured") \o Template(data, "has_parent_transaction")
    \o Template(data, "id") \o Template(data, "integration_id")
    \o Template(data, "is_3d_secure") \o Template(data, "is_auth")
    \o Template(data, "is_capture") \o Template(data, "is_refunded")
    \o Template(data, "is_standalone_payment") \o Template(data, "is_voided")
    \o Template(data, "order_id") \o Template(data, "owner")
    \o Template(data, "pending") \o Template(data, "source_data_pan")
    \o Template(data, "source_data_sub_type") \o Template(data, "source_data_type")
    \o Template(data, "success")

\* The template literal `concatenated`.
Concatenated(data) ==
    Template(data, "amount_cents") \o Template(data, "created_at")
    \o Template(data, "currency") \o Template(data, "error_occured")
    \o Template(data, "has_parent_transaction") \o Template(data, "id")
    \o Template(data, "integration_id") \o Template(data, "is_3d_secure")
    \o Template(data, "is_auth") \o Template(data, "is_capture")
    \o Template(data, "is_refunded") \o Template(data, "is_standalone_payment")
    \o Template(data, "is_voided") \o Template(data, "order_id")
    \o Template(data, "owner") \o Template(data, "pending")
    \o Template(data, "source_data_pan") \o Template(data, "source_data_sub_type")
    \o Template(data, "source_data_type") \o Template(data, "success")

\* crypto.createHmac('sha512', secret).update(message).digest('hex'), taken
\* as an ideal MAC: digests agree exactly when secret and message agree.
Hmac(secret, message) == "hmac-sha512(" \o secret \o "," \o message \o ")"

\* configService.get('PAYMOB_HMAC_SECRET'): optional.
HmacSecret == config.PAYMOB_HMAC_SECRET

\* Reading order.id of an absent order throws, and so does the check of an
\* absent secret; the catch turns either into false.  An absent hmac is
\* undefined and equals no digest.
verifyWebhookSignature(data) ==
    IF "order" \in data.missing THEN FALSE
    ELSE IF IsNull(HmacSecret) THEN FALSE
    ELSE /\ "hmac" \notin data.missing
         /\ Hmac(ValueOf(HmacSecret), Concatenated(data)) = data.hmac

(***************************************************************************)
(* Webhook payloads                                                        *)
(***************************************************************************)

\* payload.obj (and payload.hmac) with the fields the handler reads;
\* merchantOrderId is order.merchant_order_id, optional; missing names the
\* properties the payload does not have.
Transaction(merchantOrderId, success) ==
    [amount_cents |-> 99, created_at |-> "2024-12-20T10:30:00",
     currency |-> "EGP", error_occured |-> ~success,
     has_parent_transaction |-> FALSE,
     id |-> IF success THEN 123456 ELSE 123455,
     integration_id |-> 12345, is_3d_secure |-> TRUE, is_auth |-> FALSE,
     is_capture |-> FALSE, is_refunded |-> FALSE,
     is_standalone_payment |-> TRUE, is_voided |-> FALSE,
     order_id |-> 98765, merchant_order_id |-> merchantOrderId,
     owner |-> 999, pending |-> FALSE, source_data_pan |-> "1234",
     source_data_sub_type |-> "VISA", source_data_type |-> "card",
     success |-> success,
     data_message |-> IF success THEN {} ELSE {"Insufficient funds"},
     hmac |-> "", missing |-> {}]

\* The sender computes the signature with the secret it holds.
Signed(secret, transaction) ==
    [transaction EXCEPT !.hmac = Hmac(secret, Concatenated(transaction))]

\* merchant_order_id of a delivery: absent, the existing order, or an
\* identifier no order has.
MerchantOrderIds == {{}, {1}, {2}}

\* Deliveries from Paymob carry the shared secret's signature; anyone else
\* can only sign with a secret of their own.
WebhookPayloads ==
    {Signed(secret, Transaction(m, success)) :
        secret \in {"test-hmac-secret", "attacker-secret"},
        m \in MerchantOrderIds, success \in BOOLEAN}

\* A delivery that has not arrived yet.
PendingDelivery ==
    [pc |-> "pending", payload |-> {}, order |-> {}, response |-> "",
     dbCalls |-> 0]

(***************************************************************************)
(* WebhooksController.handlePaymobWebhook                                  *)
(***************************************************************************)

\* type.toLowerCase().includes(...), on the source types deliveries carry.
mapPaymentMethod(type) ==
    IF type \in {"card", "CARD", "credit_card"} THEN "CARD"
    ELSE IF type \in {"wallet", "WALLET", "mobile_wallet"} THEN "MOBILE_WALLET"
    ELSE "CASH"

\* ReceiveWebhook without the signature check.
ReceiveWebhookUnchecked(d) ==
    /\ deliveries[d].pc = "pending"
    /\ \E payload \in WebhookPayloads :
          LET got == [deliveries[d] EXCEPT !.payload = {payload}]
          IN  deliveries' = [deliveries EXCEPT ![d] =
                  IF IsNull(payload.merchant_order_id)
                  THEN [got EXCEPT !.pc = "done",
                                   !.response = "No order ID provided"]
                  ELSE [got EXCEPT !.pc = "findOrder"]]
    /\ UNCHANGED <<dbVars, paymentWrites, calls, config, cartVars>>

\* The synchronous head of the handler for a payload out of payloads: the
\* signature check, then the merchant order id.
Receive(d, payloads) ==
    /\ deliveries[d].pc = "pending"
    /\ \E payload \in payloads :
          LET got == [deliveries[d] EXCEPT !.payload = {payload}]
          IN  deliveries' = [deliveries EXCEPT ![d] =
                  IF ~verifyWebhookSignature(payload)
                  THEN [got EXCEPT !.pc = "unauthorized",
                                   !.response = "Invalid signature"]
                  ELSE IF IsNull(payload.merchant_order_id)
                  THEN [got EXCEPT !.pc = "done",
                                   !.response = "No order ID provided"]
                  ELSE [got EXCEPT !.pc = "findOrder"]]
    /\ UNCHANGED <<dbVars, paymentWrites, calls, config, cartVars>>

\* A delivery of Paymob, or of someone who does not hold the secret.
ReceiveWebhook(d) == Receive(d, WebhookPayloads)

\* FindOrder without the idempotency gate.
FindOrderUngated(d) ==
    /\ deliveries[d].pc = "findOrder"
    /\ LET ourOrderId == ValueOf(ValueOf(deliveries[d].payload).merchant_order_id)
           read == [deliveries[d] EXCEPT !.dbCalls = @ + 1]
       IN  deliveries' = [deliveries EXCEPT ![d] =
               IF ourOrderId \notin DOMAIN orders
               THEN [read EXCEPT !.pc = "done", !.response = "Order not found"]
               ELSE [read EXCEPT !.pc = "txOrder",
                                 !.order = {[id |-> ourOrderId,
                                             status |-> orders[ourOrderId].status,
                                             payment |-> {payments[ourOrderId]}]}]]
    /\ UNCHANGED <<dbVars, paymentWrites, calls, config, cartVars>>

\* FindOrder throwing NotFoundException for an order it does not find.
FindOrderStrict(d) ==
    /\ deliveries[d].pc = "findOrder"
    /\ LET ourOrderId == ValueOf(ValueOf(deliveries[d].payload).merchant_order_id)
           read == [deliveries[d] EXCEPT !.dbCalls = @ + 1]
       IN  deliveries' = [deliveries EXCEPT ![d] =
               IF ourOrderId \notin DOMAIN orders
               THEN [read EXCEPT !.pc = "failed", !.response = "Order not found"]
               ELSE IF payments[ourOrderId].webhookReceived
               THEN [read EXCEPT !.pc = "done", !.response = "Already processed"]
               ELSE [read EXCEPT !.pc = "txOrder",
                                 !.order = {[id |-> ourOrderId,
                                             status |-> orders[ourOrderId].status,
                                             payment |-> {payments[ourOrderId]}]}]]
    /\ UNCHANGED <<dbVars, paymentWrites, calls, config, cartVars>>

\* prisma.order.findUnique({ include: { payment: true } }) and the
\* idempotency gate on the row that was read.
FindOrder(d) ==
    /\ deliveries[d].pc = "findOrder"
    /\ LET ourOrderId == ValueOf(ValueOf(deliveries[d].payload).merchant_order_id)
           read == [deliveries[d] EXCEPT !.dbCalls = @ + 1]
       IN  deliveries' = [deliveries EXCEPT ![d] =
               IF ourOrderId \notin DOMAIN orders
               THEN [read EXCEPT !.pc = "done", !.response = "Order not found"]
               ELSE LET order == [id |-> ourOrderId,
                                  status |-> orders[ourOrderId].status,
                                  payment |-> IF ourOrderId \in DOMAIN payments
                                              THEN {payments[ourOrderId]} ELSE {}]
                    IN  IF \E pay \in order.payment : pay.webhookReceived
                        THEN [read EXCEPT !.pc = "done", !.order = {order},
                                          !.response = "Already processed"]
                        ELSE [read EXCEPT !.pc = "txOrder", !.order = {order}]]
    /\ UNCHANGED <<dbVars, paymentWrites, calls, config, cartVars>>

\* The order a delivery is about, once it has found it.
OrderOf(d) == ValueOf(deliveries[d].order).id

\* A delivery is inside its transaction holding the order row's lock.
HoldsOrderLock(d, o) ==
    /\ deliveries[d].pc \in {"txPayment", "txCommit"}
    /\ OrderOf(d) = o

\* WebhookUpdateOrder issued on this.prisma instead of tx: the order row
\* changes at once, before the payment row.
WebhookUpdateOrderDirect(d) ==
    /\ deliveries[d].pc = "txOrder"
    /\ \A e \in Deliveries \ {d} :
          ~(deliveries[e].pc \in {"txPayment", "txCommit"}
            /\ deliveries[e].order = deliveries[d].order)
    /\ orders' = [orders EXCEPT ![ValueOf(deliveries[d].order).id].status =
                     IF ValueOf(deliveries[d].payload).success
                     THEN "PAID" ELSE "FAILED"]
    /\ deliveries' = [deliveries EXCEPT ![d].pc = "txPayment", ![d].dbCalls = @ + 1]
    /\ UNCHANGED <<cartItems, discountCodes, discountUsages, orderItems,
                   payments, paymentWrites, calls, config, cartVars>>

\* tx.order.update: takes the lock of the order row, held until the
\* transaction ends; it waits while another transaction holds it.
WebhookUpdateOrder(d) ==
    /\ deliveries[d].pc = "txOrder"
    /\ \A e \in Deliveries \ {d} : ~HoldsOrderLock(e, OrderOf(d))
    /\ deliveries' = [deliveries EXCEPT ![d].pc = "txPayment", ![d].dbCalls = @ + 1]
    /\ UNCHANGED <<dbVars, paymentWrites, calls, config, cartVars>>

\* tx.payment.update
WebhookUpdatePayment(d) ==
    /\ deliveries[d].pc = "txPayment"
    /\ deliveries' = [deliveries EXCEPT ![d].pc = "txCommit", ![d].dbCalls = @ + 1]
    /\ UNCHANGED <<dbVars, paymentWrites, calls, config, cartVars>>

\* The orders row after the update of either branch.
UpdatedOrder(row, transaction) ==
    IF transaction.success
    THEN [row EXCEPT !.status = "PAID", !.paidAt = TRUE]
    ELSE [row EXCEPT !.status = "FAILED"]

\* The payments row after the update of either branch.
UpdatedPayment(row, transaction) ==
    IF transaction.success
    THEN [row EXCEPT !.status = "COMPLETED",
                     !.paymobTransactionId = {NumberString(transaction.id)},
                     !.paymobOrderId = {NumberString(transaction.order_id)},
                     !.paymentMethod = {mapPaymentMethod(transaction.source_data_type)},
                     !.paidAt = TRUE, !.webhookReceived = TRUE,
                     !.webhookData = {transaction}]
    ELSE [row EXCEPT !.status = "FAILED",
                     !.failureReason = IF IsNull(transaction.data_message)
                                       THEN {"Payment failed"}
                                       ELSE transaction.data_message,
                     !.webhookReceived = TRUE,
                     !.webhookData = {transaction}]

\* The transaction commits both updates.
WebhookCommit(d) ==
    /\ deliveries[d].pc = "txCommit"
    /\ LET o == OrderOf(d)
           transaction == ValueOf(deliveries[d].payload)
       IN  /\ orders' = [orders EXCEPT ![o] = UpdatedOrder(@, transaction)]
           /\ payments' = [payments EXCEPT ![o] = UpdatedPayment(@, transaction)]
           /\ paymentWrites' = [paymentWrites EXCEPT ![o] = @ + 1]
    /\ deliveries' = [deliveries EXCEPT ![d].pc = "done",
                                        ![d].response = "Webhook processed"]
    /\ UNCHANGED <<cartItems, discountCodes, discountUsages, orderItems, calls, config, cartVars>>

\* A statement of the transaction or its commit throws: both updates are
\* rolled back and the delivery is answered with a server error.
WebhookFail(d) ==
    /\ deliveries[d].pc \in {"txOrder", "txPayment", "txCommit"}
    /\ deliveries' = [deliveries EXCEPT ![d].pc = "failed",
                                        ![d].response = "Internal server error"]
    /\ UNCHANGED <<dbVars, paymentWrites, calls, config, cartVars>>

(***************************************************************************)
(* CartService and the product catalogue                                   *)
(***************************************************************************)

\* Number of CartService requests that may be in flight.
NumCartCalls == 2

CartCalls == 1..NumCartCalls

ProductIds == {"p1", "p2"}

\* productId of an addItem request: a published product, or an id that
\* findUnique does not find.
DtoProductIds == ProductIds \cup {"p9"}

\* The products on sale, at the prices the carts above were filled at.
Catalogue == [p \in ProductIds |-> [price |-> IF p = "p1" THEN 99 ELSE 150]]

\* dto.price of a product update.
DtoPrices == {120}

\* A request that has not arrived yet.
IdleCartCall ==
    [pc |-> "idle", op |-> "", userId |-> "", productId |-> "",
     product |-> {}, created |-> {}, view |-> {}, status |-> 0, result |-> ""]

\* No product was edited, nothing is cached, no cart request has arrived.
CartAtRest ==
    /\ products = Catalogue
    /\ cartCache = [u \in Users |-> {}]
    /\ cartCalls = [k \in CartCalls |-> IdleCartCall]

\* ProductsService.update: prisma.product.update with the price of the dto.
UpdateProduct(p) ==
    /\ \E price \in DtoPrices : products' = [products EXCEPT ![p].price = price]
    /\ UNCHANGED <<dbVars, paymentWrites, calls, deliveries, config, cartCache, cartCalls>>

\* The CartDto fetchCartFromDB builds from the rows it read (no discount
\* code is applied to the cart).
CartDto(items) ==
    [items |-> {[id |-> i.id, productId |-> i.productId,
                 priceAtAdd |-> Number(i.priceAtAdd),
                 currentPrice |-> Number(products[i.productId].price)] :
                   i \in items},
     subtotal |-> Subtotal(items),
     itemCount |-> Cardinality(items)]

\* The request returns the cart.
ReturnCart(call, view) ==
    [Respond(call, "returned", IF call.op = "addItem" THEN 201 ELSE 200, "")
        EXCEPT !.view = {view}]

\* getCart up to its first return: cacheManager.get, and the cached value
\* is the answer when there is one.
CacheGet(call) ==
    IF cartCache[call.userId] # {}
    THEN ReturnCart(call, ValueOf(cartCache[call.userId]))
    ELSE [call EXCEPT !.pc = "fetchCart"]

\* GET /cart arrives and reads the cache.
GetCart(k) ==
    /\ cartCalls[k].pc = "idle"
    /\ \E userId \in Users :
          cartCalls' = [cartCalls EXCEPT ![k] =
              CacheGet([IdleCartCall EXCEPT !.op = "getCart", !.userId = userId])]
    /\ UNCHANGED <<dbVars, paymentWrites, calls, deliveries, config, products, cartCache>>

\* fetchCartFromDB: the cart is read with its items, and created empty
\* when the user has none.
FetchCartFromDB(k) ==
    /\ cartCalls[k].pc = "fetchCart"
    /\ LET userId == cartCalls[k].userId
           items == IF userId \in DOMAIN cartItems THEN cartItems[userId] ELSE {}
       IN  /\ cartItems' = IF userId \in DOMAIN cartItems THEN cartItems
                           ELSE cartItems @@ (userId :> {})
           /\ cartCalls' = [cartCalls EXCEPT ![k].pc = "cacheSet",
                                             ![k].view = {CartDto(items)}]
    /\ UNCHANGED <<discountCodes, discountUsages, orders, orderItems, payments,
                   paymentWrites, calls, deliveries, config, products, cartCache>>

\* cacheManager.set(cacheKey, cart, CART_TTL) and the return of getCart.
CacheSet(k) ==
    /\ cartCalls[k].pc = "cacheSet"
    /\ LET call == cartCalls[k]
       IN  /\ cartCache' = [cartCache EXCEPT ![call.userId] = call.view]
           /\ cartCalls' = [cartCalls EXCEPT ![k] = ReturnCart(call, ValueOf(call.view))]
    /\ UNCHANGED <<dbVars, paymentWrites, calls, deliveries, config, products>>

\* POST /cart/items arrives: prisma.product.findUnique.
AddItem(k) ==
    /\ cartCalls[k].pc = "idle"
    /\ \E userId \in Users, productId \in DtoProductIds :
          LET call == [IdleCartCall EXCEPT !.op = "addItem", !.userId = userId,
                                           !.productId = productId]
          IN  cartCalls' = [cartCalls EXCEPT ![k] =
                  IF productId \notin DOMAIN products
                  THEN Respond(call, "rejected", 404, "Product not found or not available")
                  ELSE [call EXCEPT !.pc = "findCart",
                                    !.product = {products[productId]}]]
    /\ UNCHANGED <<dbVars, paymentWrites, calls, deliveries, config, products, cartCache>>

\* prisma.cart.findUnique with the items, and the check for the product.
AddItemFindCart(k) ==
    /\ cartCalls[k].pc = "findCart"
    /\ LET call == cartCalls[k]
       IN  cartCalls' = [cartCalls EXCEPT ![k] =
               IF call.userId \notin DOMAIN cartItems
               THEN [call EXCEPT !.pc = "createCart"]
               ELSE IF \E i \in cartItems[call.userId] : i.productId = call.productId
               THEN Respond(call, "rejected", 409, "This product is already in your cart")
               ELSE [call EXCEPT !.pc = "createItem"]]
    /\ UNCHANGED <<dbVars, paymentWrites, calls, deliveries, config, products, cartCache>>

\* The cart_items row of addItem: priceAtAdd is the price of the product
\* row read when the request arrived.
NewCartItem(k, call) ==
    [id |-> "new" \o ToString(k), productId |-> call.productId,
     priceAtAdd |-> ValueOf(call.product).price]

\* tx.cartItem.deleteMany of a checkout that has not committed yet holds
\* the locks on the rows of the cart: an insert into that cart waits.
CartLocked(userId) ==
    \E c \in Calls : calls[c].pc = "txCommit" /\ calls[c].userId = userId

\* prisma.cart.create with the item; carts.userId is unique, the create
\* fails when another request has created the cart meanwhile.
AddItemCreateCart(k) ==
    /\ cartCalls[k].pc = "createCart"
    /\ LET call == cartCalls[k]
           item == NewCartItem(k, call)
       IN  IF call.userId \in DOMAIN cartItems
           THEN /\ cartCalls' = [cartCalls EXCEPT ![k] =
                       Respond(call, "failed", 500, "Internal server error")]
                /\ UNCHANGED cartItems
           ELSE /\ cartItems' = cartItems @@ (call.userId :> {item})
                /\ cartCalls' = [cartCalls EXCEPT ![k].pc = "invalidate",
                                                  ![k].created = {item}]
    /\ UNCHANGED <<discountCodes, discountUsages, orders, orderItems, payments,
                   paymentWrites, calls, deliveries, config, products, cartCache>>

\* prisma.cartItem.create; (cartId, productId) is unique, the create fails
\* when another request has added the product meanwhile.  The update of
\* cart.expiresAt that follows touches nothing kept here.
AddItemCreateItem(k) ==
    /\ cartCalls[k].pc = "createItem"
    /\ LET call == cartCalls[k]
           item == NewCartItem(k, call)
       IN  /\ ~CartLocked(call.userId)
           /\ IF \E i \in cartItems[call.userId] : i.productId = call.productId
              THEN /\ cartCalls' = [cartCalls EXCEPT ![k] =
                          Respond(call, "failed", 500, "Internal server error")]
                   /\ UNCHANGED cartItems
              ELSE /\ cartItems' = [cartItems EXCEPT ![call.userId] = @ \cup {item}]
                   /\ cartCalls' = [cartCalls EXCEPT ![k].pc = "invalidate",
                                                     ![k].created = {item}]
    /\ UNCHANGED <<discountCodes, discountUsages, orders, orderItems, payments,
                   paymentWrites, calls, deliveries, config, products, cartCache>>

\* invalidateCache: cacheManager.del(cacheKey).
InvalidateCache(k) ==
    /\ cartCalls[k].pc = "invalidate"
    /\ cartCache' = [cartCache EXCEPT ![cartCalls[k].userId] = {}]
    /\ cartCalls' = [cartCalls EXCEPT ![k].pc = "getCart"]
    /\ UNCHANGED <<dbVars, paymentWrites, calls, deliveries, config, products>>

\* return this.getCart(userId) at the end of addItem: the cache is read.
AddItemGetCart(k) ==
    /\ cartCalls[k].pc = "getCart"
    /\ cartCalls' = [cartCalls EXCEPT ![k] = CacheGet(cartCalls[k])]
    /\ UNCHANGED <<dbVars, paymentWrites, calls, deliveries, config, products, cartCache>>

(***************************************************************************)
(* Checkout: the requests against a database with two filled carts and     *)
(* one discount code.                                                      *)
(***************************************************************************)

EmptyTable == [o \in {} |-> {}]

Init ==
    /\ cartItems = [u \in Users |-> IF u = "u1" THEN CartOfU1 ELSE CartOfU2]
    /\ \E d \in DiscountConfigs : discountCodes = [k \in {d.code} |-> d]
    /\ discountUsages = {}
    /\ orders = EmptyTable
    /\ orderItems = EmptyTable
    /\ payments = EmptyTable
    /\ paymentWrites = [o \in OrderIds |-> 0]
    /\ calls = [c \in Calls |-> IdleCall]
    /\ deliveries = [d \in Deliveries |-> PendingDelivery]
    /\ config = FullConfig
    /\ CartAtRest

Next ==
    \E c \in Calls :
        \/ ReadCart(c)
        \/ FindDiscount(c)
        \/ CountUsage(c)
        \/ TxCreateOrder(c)
        \/ TxCreatePayment(c)
        \/ TxCreateUsage(c)
        \/ TxIncrementUsage(c)
        \/ TxClearCart(c)
        \/ TxCommit(c)
        \/ TxFail(c)
        \/ FindUser(c)
        \/ GetAuthToken(c)
        \/ RegisterOrder(c)
        \/ GetPaymentKey(c)

Spec == Init /\ [][Next]_vars

(***************************************************************************)
(* Reconciliation: webhook deliveries against a database in which u1 has   *)
(* checked out (no discount code) and order 1 awaits its payment.          *)
(***************************************************************************)

\* A request of userId whose checkout transaction (no discount code) for
\* the cart has committed.
Committed(userId, cart) ==
    [PriceOrder([IdleCall EXCEPT !.userId = userId, !.cart = cart,
                                 !.product = IncludedProducts(cart, Catalogue),
                                 !.subtotal = Subtotal(cart)], {})
        EXCEPT !.pc = "committed", !.staged = {"order", "payment", "clear"}]

\* Request 1 after createOrder returned for u1's cart.
CheckedOut ==
    LET call == Committed("u1", CartOfU1)
        cents == {AmountCents(call.total)}
    IN  Respond([call EXCEPT
                    !.gateway = <<Exchange("auth/tokens", {}, {}, {}, TRUE),
                                  Exchange("ecommerce/orders", cents, {1}, {}, TRUE),
                                  Exchange("acceptance/payment_keys", cents, {},
                                           {PaymobOrderId(1)}, TRUE)>>,
                    !.paymentUrl = {PaymentUrl(ValueOf(FullConfig.PAYMOB_IFRAME_ID),
                                               "payment-key")}],
                "returned", 201, "Order created successfully")

InitWebhook ==
    /\ cartItems = [u \in Users |-> IF u = "u1" THEN {} ELSE CartOfU2]
    /\ discountCodes = [k \in {HalfOff.code} |-> HalfOff]
    /\ discountUsages = {}
    /\ orders = (1 :> OrderRow(CheckedOut))
    /\ orderItems = (1 :> OrderItemRows(CheckedOut))
    /\ payments = (1 :> PaymentRow(CheckedOut))
    /\ paymentWrites = [o \in OrderIds |-> 0]
    /\ calls = [c \in Calls |-> IF c = 1 THEN CheckedOut ELSE IdleCall]
    /\ deliveries = [d \in Deliveries |-> PendingDelivery]
    /\ config = FullConfig
    /\ CartAtRest

\* Deliveries are handled by independent concurrent workers.
NextWebhook ==
    \E d \in Deliveries :
        \/ ReceiveWebhook(d)
        \/ FindOrder(d)
        \/ WebhookUpdateOrder(d)
        \/ WebhookUpdatePayment(d)
        \/ WebhookCommit(d)
        \/ WebhookFail(d)

SpecWebhook == InitWebhook /\ [][NextWebhook]_vars

\* A delivery is being handled.
InFlight(d) == deliveries[d].pc \in {"findOrder", "txOrder", "txPayment", "txCommit"}

\* A delivery that arrives when no other one is being handled.
ReceiveWebhookAlone(d) ==
    /\ \A e \in Deliveries \ {d} : ~InFlight(e)
    /\ ReceiveWebhook(d)

\* Deliveries handled one after the other (redelivery after a response).
NextRedelivery ==
    \E d \in Deliveries :
        \/ ReceiveWebhookAlone(d)
        \/ FindOrder(d)
        \/ WebhookUpdateOrder(d)
        \/ WebhookUpdatePayment(d)
        \/ WebhookCommit(d)
        \/ WebhookFail(d)

SpecRedelivery == InitWebhook /\ [][NextRedelivery]_vars

(***************************************************************************)
(* Signature verification: deliveries whose payload is genuine, forged,    *)
(* altered in one signed field after signing, or lacks a property, with    *)
(* the secret configured or not.                                           *)
(***************************************************************************)

\* The power of ten at the leading digit of n.
RECURSIVE LeadingUnit(_)
LeadingUnit(n) == IF n < 10 THEN 1 ELSE 10 * LeadingUnit(n \div 10)

\* n with its last, and with its first, decimal digit replaced (the length
\* of the text stays).
DigitChanges(n) ==
    {IF n % 10 = 9 THEN n - 1 ELSE n + 1,
     IF n \div LeadingUnit(n) = 9 THEN n - LeadingUnit(n) ELSE n + LeadingUnit(n)}

\* The text fields of the payloads with their last, and with their first,
\* byte replaced.
ByteChanges(text) ==
    CASE text = "2024-12-20T10:30:00" -> {"2024-12-20T10:30:01", "3024-12-20T10:30:00"}
      [] text = "EGP" -> {"EGQ", "FGP"}
      [] text = "1234" -> {"1235", "2234"}
      [] text = "VISA" -> {"VISB", "WISA"}
      [] text = "card" -> {"care", "dard"}

\* The values a signed field takes when one byte of it is changed; a
\* boolean has no other value of the same length than itself, its change
\* is the other boolean.
OneByteChanges(field, value) ==
    IF field \in BooleanFields THEN {~value}
    ELSE IF field \in NumberFields THEN DigitChanges(value)
    ELSE ByteChanges(value)

SignedFieldNames == {SignedFields[i] : i \in DOMAIN SignedFields}

\* payload with one signed field changed in one byte, the signature as it
\* was.
Tampered(payload) ==
    UNION {{[payload EXCEPT ![field] = value] :
               value \in OneByteChanges(field, payload[field])} :
           field \in SignedFieldNames}

\* What Paymob sends for order 1.
GenuinePayloads ==
    {Signed("test-hmac-secret", Transaction({1}, success)) : success \in BOOLEAN}

TamperedPayloads == UNION {Tampered(payload) : payload \in GenuinePayloads}

\* A success event that lacks one property (a signed field, the order
\* object or the hmac), the rest signed with the secret as the template
\* literal writes it, or left with the signature of the complete payload.
IncompletePayloads ==
    LET complete == Transaction({1}, TRUE)
    IN  {Signed("test-hmac-secret", [complete EXCEPT !.missing = {field}]) :
            field \in SignedFieldNames \cup {"order"}}
        \cup {[Signed("test-hmac-secret", complete) EXCEPT !.missing = {field}] :
                 field \in {"amount_cents", "success", "order", "hmac"}}

\* A genuine payload with a boundary between two neighbouring signed
\* fields moved, the signature as it was: the last digit of id passed to
\* the front of integration_id, or a digit passed from the front of
\* created_at to the end of amount_cents.
ShiftedPayloads ==
    UNION {{[payload EXCEPT !.id = payload.id \div 10,
                            !.integration_id =
                                (payload.id % 10) * 10 * LeadingUnit(payload.integration_id)
                                + payload.integration_id],
            [payload EXCEPT !.amount_cents = payload.amount_cents * 10 + 2,
                            !.created_at = "024-12-20T10:30:00"]} :
           payload \in GenuinePayloads}

SignaturePayloads ==
    GenuinePayloads \cup TamperedPayloads \cup IncompletePayloads
    \cup ShiftedPayloads
    \cup {Signed("attacker-secret", Transaction({1}, TRUE))}

ReceiveAnyWebhook(d) == Receive(d, SignaturePayloads)

InitSignature ==
    /\ cartItems = [u \in Users |-> IF u = "u1" THEN {} ELSE CartOfU2]
    /\ discountCodes = [k \in {HalfOff.code} |-> HalfOff]
    /\ discountUsages = {}
    /\ orders = (1 :> OrderRow(CheckedOut))
    /\ orderItems = (1 :> OrderItemRows(CheckedOut))
    /\ payments = (1 :> PaymentRow(CheckedOut))
    /\ paymentWrites = [o \in OrderIds |-> 0]
    /\ calls = [c \in Calls |-> IF c = 1 THEN CheckedOut ELSE IdleCall]
    /\ deliveries = [d \in Deliveries |-> PendingDelivery]
    /\ config \in {FullConfig, [FullConfig EXCEPT !.PAYMOB_HMAC_SECRET = {}]}
    /\ CartAtRest

NextSignature == \E d \in Deliveries : ReceiveAnyWebhook(d)

SpecSignature == InitSignature /\ [][NextSignature]_vars

(***************************************************************************)
(* Payment initiation: the steps after the commit, for two orders checked  *)
(* out without a code, under every combination of the PAYMOB_* settings    *)
(* createPayment reads.                                                    *)
(***************************************************************************)

\* The requests whose checkout has committed, with user and cart.
CommittedCalls == {c \in Calls : c <= 2}

CommittedCall(c) ==
    IF c = 1 THEN Committed("u1", CartOfU1) ELSE Committed("u2", CartOfU2)

\* Each of the three settings of createPayment is present or left out.
GatewayConfigs ==
    {[FullConfig EXCEPT !.PAYMOB_API_KEY = apiKey,
                        !.PAYMOB_INTEGRATION_ID = integrationId,
                        !.PAYMOB_IFRAME_ID = iframeId] :
        apiKey \in {{}, FullConfig.PAYMOB_API_KEY},
        integrationId \in {{}, FullConfig.PAYMOB_INTEGRATION_ID},
        iframeId \in {{}, FullConfig.PAYMOB_IFRAME_ID}}

InitGateway ==
    /\ cartItems = [u \in Users |-> {}]
    /\ discountCodes = [k \in {HalfOff.code} |-> HalfOff]
    /\ discountUsages = {}
    /\ orders = [c \in CommittedCalls |-> OrderRow(CommittedCall(c))]
    /\ orderItems = [c \in CommittedCalls |-> OrderItemRows(CommittedCall(c))]
    /\ payments = [c \in CommittedCalls |-> PaymentRow(CommittedCall(c))]
    /\ paymentWrites = [o \in OrderIds |-> 0]
    /\ calls = [c \in Calls |-> IF c \in CommittedCalls THEN CommittedCall(c)
                                ELSE IdleCall]
    /\ deliveries = [d \in Deliveries |-> PendingDelivery]
    /\ config \in GatewayConfigs
    /\ CartAtRest

NextGateway ==
    \E c \in Calls :
        \/ FindUser(c)
        \/ GetAuthToken(c)
        \/ RegisterOrder(c)
        \/ GetPaymentKey(c)

SpecGateway == InitGateway /\ [][NextGateway]_vars

\* Checkout under weak fairness: a handler that can take its next step
\* takes it.
SpecFair == Init /\ [][Next]_vars /\ WF_vars(Next)

(***************************************************************************)
(* Properties                                                              *)
(***************************************************************************)

\* Delivery d carries a verified success event for the existing order o.
VerifiedSuccessFor(d, o) ==
    /\ deliveries[d].pc # "pending"
    /\ o \in DOMAIN orders
    /\ LET transaction == ValueOf(deliveries[d].payload)
       IN  /\ verifyWebhookSignature(transaction)
           /\ transaction.success
           /\ transaction.merchant_order_id = {o}

\* C1: of the verified deliveries for one order, however their reads and
\* writes interleave, exactly one applies its transition: no order sees a
\* second committed webhook transaction.
C1_OneDeliveryApplies == \A o \in OrderIds : paymentWrites[o] <= 1

\* C2: when the identical verified success webhook is delivered twice, one
\* delivery after the other, and one of them applied the transition of the
\* pending order, the other one was acknowledged as already processed and
\* the order went to PAID / COMPLETED exactly once.
C2_RedeliveryIsNoOp ==
    \A d1, d2 \in Deliveries : \A o \in OrderIds :
        ( /\ d1 # d2
          /\ deliveries[d1].pc = "done" /\ deliveries[d2].pc = "done"
          /\ deliveries[d1].payload = deliveries[d2].payload
          /\ VerifiedSuccessFor(d1, o)
          /\ deliveries[d1].response = "Webhook processed" )
        => /\ deliveries[d2].response = "Already processed"
           /\ paymentWrites[o] = 1
           /\ orders[o].status = "PAID"
           /\ payments[o].status = "COMPLETED"

\* C2 witness: the same success webhook handled twice, applied once.
C2_Witness ==
    \E d1, d2 \in Deliveries :
        /\ d1 # d2
        /\ deliveries[d1].payload = deliveries[d2].payload
        /\ VerifiedSuccessFor(d1, 1)
        /\ deliveries[d1].response = "Webhook processed"
        /\ deliveries[d2].response = "Already processed"
        /\ orders[1].status = "PAID" /\ payments[1].webhookReceived

\* C3: once every delivery has been answered, an order for which some
\* acknowledged verified delivery reported success is PAID and its payment
\* COMPLETED.
C3_SuccessLeavesOrderPaid ==
    \A o \in DOMAIN orders :
        ( /\ \A d \in Deliveries : deliveries[d].pc \in {"done", "unauthorized"}
          /\ \E d \in Deliveries : deliveries[d].pc = "done" /\ VerifiedSuccessFor(d, o) )
        => orders[o].status = "PAID" /\ payments[o].status = "COMPLETED"

\* C4: a delivery whose signature does not verify is answered with the
\* unauthorized error, has made no database call and has written nothing;
\* whoever has made a database call carries a verified signature.
C4_SignatureBeforeDatabase ==
    \A d \in Deliveries :
        deliveries[d].pc # "pending" =>
            LET transaction == ValueOf(deliveries[d].payload)
            IN  /\ ~verifyWebhookSignature(transaction) =>
                      /\ deliveries[d].pc = "unauthorized"
                      /\ deliveries[d].response = "Invalid signature"
                      /\ deliveries[d].dbCalls = 0
                      /\ \A o \in DOMAIN payments :
                             payments[o].webhookData # {transaction}
                /\ deliveries[d].dbCalls > 0 => verifyWebhookSignature(transaction)

\* C4 witness: a forged success event for the existing order was rejected
\* while the order is still pending.
C4_Witness ==
    \E d \in Deliveries :
        /\ deliveries[d].pc = "unauthorized"
        /\ LET transaction == ValueOf(deliveries[d].payload)
           IN  transaction.success /\ transaction.merchant_order_id = {1}
        /\ orders[1].status = "PENDING" /\ ~payments[1].webhookReceived

\* C5: every persisted order has total = subtotal - discountAmount and
\* total > 0, as the DECIMAL(10,2) columns hold the values.
C5_StoredTotal ==
    \A o \in DOMAIN orders :
        /\ orders[o].total = orders[o].subtotal - orders[o].discountAmount
        /\ orders[o].total > 0

\* C6: a step of the checkout transaction other than its commit changes no
\* row, and a request whose transaction failed leaves no order, order item,
\* payment or discount usage of its own, the usage counters and the carts
\* as they were.
C6_AllOrNothing ==
    [][\A c \in Calls :
          /\ ( /\ calls[c].pc \in TxPcs
               /\ calls'[c].pc # calls[c].pc
               /\ calls'[c].pc # "committed" )
             => UNCHANGED dbVars
          /\ calls'[c].pc = "txFailed"
             => /\ c \notin DOMAIN orders'
                /\ c \notin DOMAIN orderItems'
                /\ c \notin DOMAIN payments'
                /\ \A u \in discountUsages' : u.orderId # c]_vars

\* C6 witness: a transaction with a discount failed after all five
\* statements had run, and the cart still holds what the request read.
C6_Witness ==
    \E c \in Calls :
        /\ calls[c].pc = "txFailed"
        /\ calls[c].staged = {"order", "payment", "usage", "increment", "clear"}
        /\ cartItems[calls[c].userId] = calls[c].cart
        /\ calls[c].cart # {}

\* C7: a code with a usage limit is never used more often than the limit.
C7_UsageLimit ==
    \A k \in DOMAIN discountCodes :
        ~IsNull(discountCodes[k].usageLimit)
            => discountCodes[k].usageCount <= ValueOf(discountCodes[k].usageLimit)

\* C8: a user never has more usage rows of a code than its per-user limit.
C8_PerUserLimit ==
    \A k \in DOMAIN discountCodes : \A u \in Users :
        ~IsNull(discountCodes[k].perUserLimit)
            => UserUsageCount(discountCodes[k].id, u)
                   <= ValueOf(discountCodes[k].perUserLimit)

\* C9: no two orders are created from the same cart items.
C9_OneOrderPerCart ==
    \A c1, c2 \in DOMAIN orders :
        c1 # c2 => calls[c1].cart \cap calls[c2].cart = {}

\* C10: each order that applied a code has exactly one usage row (code,
\* user, order), an order without a code has none, every usage row belongs
\* to an order, and the usage counter of a code has grown by the number of
\* its usage rows.
C10_UsageAccounting ==
    /\ \A o \in DOMAIN orders :
          {u \in discountUsages : u.orderId = o}
              = {[discountCodeId |-> id, userId |-> orders[o].userId, orderId |-> o] :
                    id \in orders[o].discountCodeId}
    /\ \A u \in discountUsages : u.orderId \in DOMAIN orders
    /\ \A k \in DOMAIN discountCodes :
          discountCodes[k].usageCount
              = Cardinality({u \in discountUsages :
                                u.discountCodeId = discountCodes[k].id})

\* C10 witness: two checkouts that overlapped both redeemed the code, and
\* the counter stands at two.
C10_Witness ==
    \E c1, c2 \in DOMAIN orders :
        /\ c1 # c2
        /\ ~IsNull(orders[c1].discountCodeId) /\ ~IsNull(orders[c2].discountCodeId)
        /\ ValueOf(calls[c1].discount).usageCount = 0
        /\ ValueOf(calls[c2].discount).usageCount = 0
        /\ \A k \in DOMAIN discountCodes : discountCodes[k].usageCount = 2

\* C11: no partial order / payment state is observable: an order is PAID
\* exactly when its payment is COMPLETED, FAILED exactly when its payment is
\* FAILED, the payment has webhookReceived exactly when it is not PENDING,
\* and a PAID order and its payment carry paidAt.
C11_NoPartialState ==
    \A o \in DOMAIN orders :
        /\ o \in DOMAIN payments
        /\ orders[o].status = "PAID" <=> payments[o].status = "COMPLETED"
        /\ orders[o].status = "FAILED" <=> payments[o].status = "FAILED"
        /\ payments[o].webhookReceived <=> payments[o].status # "PENDING"
        /\ orders[o].status = "PAID" => orders[o].paidAt /\ payments[o].paidAt

\* C11 witness: a verified success webhook was applied to the order while
\* another delivery for it is inside its own transaction.
C11_Witness ==
    \E d, e \in Deliveries :
        /\ deliveries[d].response = "Webhook processed"
        /\ VerifiedSuccessFor(d, 1)
        /\ deliveries[e].pc \in {"txOrder", "txPayment", "txCommit"}
        /\ orders[1].status = "PAID" /\ orders[1].paidAt
        /\ payments[1].status = "COMPLETED" /\ payments[1].webhookReceived

\* C12: a createOrder call rejected by validation (empty cart, rejected
\* discount code, total not positive) is answered with a client error (400)
\* and the step that rejects it changes no row; the call has issued no
\* statement of the transaction and no request to the gateway, and no
\* order, order item, payment or usage row is its own.
C12_RejectedBeforePersistence ==
    [][\A c \in Calls :
          (calls[c].pc # "rejected" /\ calls'[c].pc = "rejected")
          => /\ calls'[c].status = 400
             /\ UNCHANGED dbVars
             /\ calls'[c].staged = {}
             /\ calls'[c].gateway = <<>>
             /\ c \notin DOMAIN orders'
             /\ c \notin DOMAIN orderItems'
             /\ c \notin DOMAIN payments'
             /\ \A u \in discountUsages' : u.orderId # c]_vars

\* C12 witness: after another request redeemed the code, a request with a
\* filled cart was rejected because the code is used up, and the rejected
\* request left its cart and the counter as they were.
C12_Witness ==
    \E c \in Calls, e \in DOMAIN orders :
        /\ calls[c].pc = "rejected"
        /\ calls[c].result = "This discount code has been fully used"
        /\ calls[c].status = 400
        /\ cartItems[calls[c].userId] = calls[c].cart /\ calls[c].cart # {}
        /\ ~IsNull(orders[e].discountCodeId)
        /\ \A k \in DOMAIN discountCodes : discountCodes[k].usageCount = 1

\* C13: when the step after the commit (user lookup, createPayment) fails,
\* the failing step changes no row, and what checkout committed is there:
\* the PENDING order with its items, the PENDING payment, the usage row and
\* a counted use when a code was applied, and the emptied cart.
C13_PaymentFailureKeepsCommit ==
    [][\A c \in Calls :
          (calls[c].pc # "paymentFailed" /\ calls'[c].pc = "paymentFailed")
          => /\ UNCHANGED dbVars
             /\ c \in DOMAIN orders' /\ orders'[c].status = "PENDING"
             /\ c \in DOMAIN orderItems'
             /\ orderItems'[c] = OrderItemRows(calls[c])
             /\ c \in DOMAIN payments' /\ payments'[c].status = "PENDING"
             /\ ~IsNull(calls[c].discount)
                => /\ UsageRow(c, calls[c]) \in discountUsages'
                   /\ discountCodes'[ValueOf(calls[c].discount).code].usageCount >= 1
             /\ cartItems'[calls[c].userId] = {}]_vars

\* C13 witness: a checkout with a code committed, Paymob then refused the
\* registration of the order, and order, payment, usage and empty cart are
\* in the database.
C13_Witness ==
    \E c \in Calls :
        /\ calls[c].pc = "paymentFailed"
        /\ calls[c].result = "Failed to register payment"
        /\ Len(calls[c].gateway) = 2
        /\ ~IsNull(calls[c].discount)
        /\ c \in DOMAIN orders /\ orders[c].status = "PENDING"
        /\ payments[c].status = "PENDING"
        /\ UsageRow(c, calls[c]) \in discountUsages
        /\ cartItems[calls[c].userId] = {}

\* C14: a failure of the step after the commit reaches the createOrder
\* caller as an outcome (status and message) that no validation error and
\* no failed transaction produces.
C14_PaymentFailureDistinct ==
    \A c, e \in Calls :
        (calls[c].pc = "paymentFailed" /\ calls[e].pc \in {"rejected", "txFailed"})
        => <<calls[c].status, calls[c].result>> # <<calls[e].status, calls[e].result>>

\* An operation has handed out a payment URL for order o: some request
\* registered o with Paymob and returned a URL.
UrlIssuedFor(o) ==
    \E e \in Calls :
        /\ ~IsNull(calls[e].paymentUrl)
        /\ \E i \in 1..Len(calls[e].gateway) :
              calls[e].gateway[i].merchant_order_id = {o}

\* C15: after a payment-URL failure that left the committed PENDING order
\* of a request, a payment URL for that order is eventually handed out.
C15_RetryYieldsUrl ==
    \A c \in Calls : (calls[c].pc = "paymentFailed") ~> UrlIssuedFor(c)

\* Delivery d, in the state given by its record, carries a verified
\* payload whose merchant order id is absent or names no order.
Unmatchable(delivery) ==
    /\ delivery.pc # "pending"
    /\ LET transaction == ValueOf(delivery.payload)
       IN  /\ verifyWebhookSignature(transaction)
           /\ \A o \in transaction.merchant_order_id : o \notin DOMAIN orders

\* C16: every step of a verified delivery whose merchant order id is absent
\* or names no existing order leaves all order and payment rows unchanged,
\* and the delivery ends acknowledged ("No order ID provided" or "Order not
\* found"), never with an error.
C16_UnmatchedAcknowledged ==
    [][\A d \in Deliveries :
          (deliveries'[d] # deliveries[d] /\ Unmatchable(deliveries'[d]))
          => /\ UNCHANGED <<orders, payments>>
             /\ deliveries'[d].pc \in {"findOrder", "done"}
             /\ deliveries'[d].pc = "done"
                => deliveries'[d].response =
                       IF IsNull(ValueOf(deliveries'[d].payload).merchant_order_id)
                       THEN "No order ID provided" ELSE "Order not found"]_vars

\* C16 witness: one verified delivery without an order id and one for an
\* unknown order were both acknowledged, and order 1 is as checkout left it.
C16_Witness ==
    \E d, e \in Deliveries :
        /\ Unmatchable(deliveries[d]) /\ Unmatchable(deliveries[e])
        /\ deliveries[d].pc = "done" /\ deliveries[e].pc = "done"
        /\ deliveries[d].response = "No order ID provided"
        /\ deliveries[e].response = "Order not found"
        /\ deliveries[e].dbCalls = 1
        /\ orders[1] = OrderRow(CheckedOut) /\ payments[1] = PaymentRow(CheckedOut)

\* C17: every persisted order has its payment and every payment its order
\* (the payments table is keyed by the unique orderId), the payment of a
\* PENDING order is PENDING, and the payment's amount equals the order's
\* total.
C17_OnePaymentPerOrder ==
    /\ DOMAIN payments = DOMAIN orders
    /\ \A o \in DOMAIN orders :
          /\ payments[o].amount = orders[o].total
          /\ orders[o].status = "PENDING" => payments[o].status = "PENDING"

\* C17 witness: an order with a discount, whose payment carries the
\* discounted total.
C17_Witness ==
    \E o \in DOMAIN orders :
        /\ orders[o].discountAmount > 0
        /\ orders[o].total < orders[o].subtotal
        /\ payments[o].amount = orders[o].total
        /\ payments[o].status = "PENDING"

\* Paymob's endpoints in the order createPayment calls them.
GatewayOrder == <<"auth/tokens", "ecommerce/orders", "acceptance/payment_keys">>

\* C20: the calls a request has made to Paymob are a prefix of
\* authenticate, register order, mint payment key; every call but the last
\* one made was answered with success; and when one of the three steps
\* failed there is no payment URL and the request failed with the 500 of
\* an InternalServerErrorException of the payment service.
C20_GatewayCallOrder ==
    \A c \in Calls :
        LET call == calls[c]
            g == call.gateway
            failed == call.pc = "paymentFailed" /\ call.status = 500
                      /\ IsNull(call.paymentUrl)
        IN  /\ Len(g) <= 3
            /\ \A i \in 1..Len(g) : g[i].api = GatewayOrder[i]
            /\ \A i \in 1..(Len(g) - 1) : g[i].ok
            /\ (\E i \in 1..Len(g) : ~g[i].ok)
               => /\ failed
                  /\ call.result \in {"Failed to initialize payment",
                                      "Failed to register payment",
                                      "Failed to generate payment key"}
            /\ call.result \in {"Failed to initialize payment",
                                "Failed to register payment",
                                "Failed to generate payment key"} => failed
            /\ ~IsNull(call.paymentUrl)
               => /\ call.pc = "returned"
                  /\ Len(g) = 3
                  /\ \A i \in 1..3 : g[i].ok

\* C20 witness: one request got its URL after three answered calls while
\* the other one stopped at the refused registration of its order.
C20_Witness ==
    \E c, e \in Calls :
        /\ calls[c].pc = "returned" /\ Len(calls[c].gateway) = 3
        /\ ~IsNull(calls[c].paymentUrl)
        /\ calls[e].pc = "paymentFailed" /\ Len(calls[e].gateway) = 2
        /\ ~calls[e].gateway[2].ok
        /\ calls[e].result = "Failed to register payment"

\* C18: a payload that differs from a validly signed one in a single byte
\* of a single signed field, the signature left as it was, does not pass
\* verifyWebhookSignature.
C18_TamperDetected ==
    \A d \in Deliveries :
        (deliveries[d].pc # "pending"
         /\ ValueOf(deliveries[d].payload) \in TamperedPayloads)
        => deliveries[d].pc = "unauthorized"

\* C18 witness: with the secret configured, a genuine payload passed and
\* the same payload with one digit of amount_cents changed was refused.
C18_Witness ==
    \E d, e \in Deliveries :
        /\ ~IsNull(config.PAYMOB_HMAC_SECRET)
        /\ deliveries[d].pc = "findOrder"
        /\ ValueOf(deliveries[d].payload) \in GenuinePayloads
        /\ deliveries[e].pc = "unauthorized"
        /\ ValueOf(deliveries[e].payload) \in Tampered(ValueOf(deliveries[d].payload))
        /\ ValueOf(deliveries[e].payload).amount_cents
               # ValueOf(deliveries[d].payload).amount_cents

\* The texts of the fields, joined in the given order.
RECURSIVE Joined(_, _)
Joined(data, fields) ==
    IF fields = <<>> THEN ""
    ELSE Template(data, Head(fields)) \o Joined(data, Tail(fields))

\* C19: a payload passes verifyWebhookSignature exactly when the secret is
\* configured, the payload lacks no property, and its hmac is the
\* HMAC-SHA512 under the secret of the twenty fields joined in the
\* documented order.
C19_VerifiesExactly ==
    \A d \in Deliveries :
        deliveries[d].pc # "pending" =>
            LET data == ValueOf(deliveries[d].payload)
            IN  deliveries[d].pc # "unauthorized"
                <=> /\ ~IsNull(config.PAYMOB_HMAC_SECRET)
                    /\ data.missing = {}
                    /\ data.hmac = Hmac(ValueOf(config.PAYMOB_HMAC_SECRET),
                                        Joined(data, SignedFields))

(***************************************************************************)
(* Per-user limit: u1 has checked out once with SAVE50 (order 0) and has   *)
(* filled the cart again; the code allows one use per user and three uses  *)
(* in all.                                                                 *)
(***************************************************************************)

\* The code as the administrator created it.
OncePerUser == [HalfOff EXCEPT !.usageLimit = {3}]

\* u1's earlier request, which applied the code to CartOfU1.
EarlierCall ==
    PriceOrder([IdleCall EXCEPT !.userId = "u1", !.code = "SAVE50",
                                !.cart = CartOfU1,
                                !.product = IncludedProducts(CartOfU1, Catalogue),
                                !.subtotal = Subtotal(CartOfU1)],
               {OncePerUser})

InitPerUser ==
    /\ cartItems = [u \in Users |->
                       IF u = "u1"
                       THEN {[id |-> "ci4", productId |-> "p2", priceAtAdd |-> 150]}
                       ELSE CartOfU2]
    /\ discountCodes = [k \in {OncePerUser.code} |->
                           [OncePerUser EXCEPT !.usageCount = 1]]
    /\ discountUsages = {UsageRow(0, EarlierCall)}
    /\ orders = (0 :> OrderRow(EarlierCall))
    /\ orderItems = (0 :> OrderItemRows(EarlierCall))
    /\ payments = (0 :> PaymentRow(EarlierCall))
    /\ paymentWrites = [o \in OrderIds |-> 0]
    /\ calls = [c \in Calls |-> IdleCall]
    /\ deliveries = [d \in Deliveries |-> PendingDelivery]
    /\ config = FullConfig
    /\ CartAtRest

\* createOrder up to the commit of its transaction.
NextCheckout ==
    \E c \in Calls :
        \/ ReadCart(c)
        \/ FindDiscount(c)
        \/ CountUsage(c)
        \/ TxCreateOrder(c)
        \/ TxCreatePayment(c)
        \/ TxCreateUsage(c)
        \/ TxIncrementUsage(c)
        \/ TxClearCart(c)
        \/ TxCommit(c)
        \/ TxFail(c)

SpecPerUser == InitPerUser /\ [][NextCheckout]_vars

\* The request had a cart to check out and has gone through
\* validateAndGetDiscount for the code SAVE50.
ValidatedCode(call) ==
    /\ ToUpperCase(call.code) = "SAVE50"
    /\ call.cart # {}
    /\ call.pc \notin {"idle", "findDiscount", "countUsage"}

PerUserMessage == "You have already used this discount code the maximum number of times"

\* C21: u1, who has reached perUserLimit, is rejected whenever u1 checks
\* out with the code again; a request of the other user u2 with the same
\* code is rejected only when the global usageLimit is reached or when u2
\* has a usage row of its own, u1's usage never counts against u2.
C21_LimitCountedPerUser ==
    \A c \in Calls :
        LET call == calls[c]
            d == discountCodes["SAVE50"]
        IN  ValidatedCode(call)
            => /\ call.userId = "u1"
                  => /\ call.pc = "rejected"
                     /\ \/ call.result = PerUserMessage
                        \/ /\ call.result = "This discount code has been fully used"
                           /\ d.usageCount >= ValueOf(d.usageLimit)
               /\ (call.userId = "u2" /\ call.pc = "rejected")
                  => \/ /\ call.result = PerUserMessage
                        /\ Cardinality({u \in discountUsages :
                                           u.userId = "u2" /\ u.discountCodeId = d.id})
                               >= ValueOf(d.perUserLimit)
                     \/ /\ call.result = "This discount code has been fully used"
                        /\ d.usageCount >= ValueOf(d.usageLimit)

\* u1's request with the code was rejected for the per-user limit while
\* u2's request with the same code has committed.
C21_Witness ==
    \E a, b \in Calls :
        /\ calls[a].userId = "u1" /\ ValidatedCode(calls[a])
        /\ calls[a].result = PerUserMessage
        /\ calls[b].userId = "u2" /\ ValidatedCode(calls[b])
        /\ calls[b].pc = "committed"
        /\ \E u \in discountUsages : u.userId = "u2" /\ u.orderId = b

(***************************************************************************)
(* Price lock: checkouts of the two carts while an administrator edits     *)
(* the price of the product that is in both; no discount code exists.      *)
(***************************************************************************)

\* The product whose price is edited.
EditedProducts == {"p1"}

InitPriceLock ==
    /\ cartItems = [u \in Users |-> IF u = "u1" THEN CartOfU1 ELSE CartOfU2]
    /\ discountCodes = EmptyTable
    /\ discountUsages = {}
    /\ orders = EmptyTable
    /\ orderItems = EmptyTable
    /\ payments = EmptyTable
    /\ paymentWrites = [o \in OrderIds |-> 0]
    /\ calls = [c \in Calls |-> IdleCall]
    /\ deliveries = [d \in Deliveries |-> PendingDelivery]
    /\ config = FullConfig
    /\ CartAtRest

\* createOrder up to the commit (no code passes the lookup, so the steps
\* for a discount never run) and the edits of the price.
NextPriceLock ==
    \/ \E c \in Calls :
          \/ ReadCart(c)
          \/ FindDiscount(c)
          \/ TxCreateOrder(c)
          \/ TxCreatePayment(c)
          \/ TxClearCart(c)
          \/ TxCommit(c)
          \/ TxFail(c)
    \/ \E p \in EditedProducts : UpdateProduct(p)

SpecPriceLock == InitPriceLock /\ [][NextPriceLock]_vars

\* The sum of the priceAtAdd columns of cart_items rows, in cents.
RECURSIVE SumOfPriceAtAdd(_)
SumOfPriceAtAdd(items) ==
    IF items = {} THEN 0
    ELSE LET i == CHOOSE x \in items : TRUE
         IN  i.priceAtAdd + SumOfPriceAtAdd(items \ {i})

\* The cart_items rows a user's cart held when the user checked out (no
\* item is added in SpecPriceLock).
CartAtCheckout(userId) == IF userId = "u1" THEN CartOfU1 ELSE CartOfU2

\* C22: the subtotal of every order is the sum of the priceAtAdd of the
\* items of the cart it was created from, and the order has one item per
\* cart item at that item's priceAtAdd, whatever the products cost now.
C22_PriceLock ==
    \A o \in DOMAIN orders :
        LET cart == CartAtCheckout(orders[o].userId)
        IN  /\ orders[o].subtotal = SumOfPriceAtAdd(cart)
            /\ orderItems[o] =
                   {[productId |-> i.productId, price |-> i.priceAtAdd] : i \in cart}

\* An order was created from a cart read when a product in it cost
\* something else than its priceAtAdd.
C22_Witness ==
    \E o \in DOMAIN orders :
        /\ calls[o].pc = "committed"
        /\ \E i \in calls[o].cart :
              /\ calls[o].product[i.productId].price # i.priceAtAdd
              /\ [productId |-> i.productId, price |-> i.priceAtAdd] \in orderItems[o]

\* The statements of request c's transaction are visible in the database:
\* the PENDING order with its items, the PENDING payment, the usage row and
\* the incremented counter when a code was applied, the emptied cart.
CommittedWrites(c) ==
    LET call == calls[c]
    IN  /\ c \in DOMAIN orders /\ orders[c].status = "PENDING"
        /\ orders[c].userId = call.userId
        /\ orderItems[c] # {}
        /\ c \in DOMAIN payments /\ payments[c].status = "PENDING"
        /\ cartItems[call.userId] = {}
        /\ ~IsNull(call.discount)
           => /\ \E u \in discountUsages : u.orderId = c /\ u.userId = call.userId
              /\ discountCodes[ValueOf(call.discount).code].usageCount >= 1

\* C23: a request that has sent anything to the payment gateway has its
\* transaction committed, and the order id the gateway was asked to
\* register is that of the committed PENDING order and payment.
C23_CommitBeforeGateway ==
    \A c \in Calls :
        /\ calls[c].gateway # <<>> => CommittedWrites(c)
        /\ \A i \in DOMAIN calls[c].gateway :
              \A o \in calls[c].gateway[i].merchant_order_id :
                  /\ o = c
                  /\ o \in DOMAIN orders /\ orders[o].status = "PENDING"
                  /\ o \in DOMAIN payments /\ payments[o].status = "PENDING"

\* A request with a discount code has asked the gateway to register its
\* order.
C23_Witness ==
    \E c \in Calls :
        /\ ~IsNull(calls[c].discount)
        /\ \E i \in DOMAIN calls[c].gateway :
              /\ calls[c].gateway[i].api = "ecommerce/orders"
              /\ calls[c].gateway[i].merchant_order_id = {c}
        /\ CommittedWrites(c)

(***************************************************************************)
(* Discount validation: requests against every combination of the          *)
(* optional settings of one percentage code, with the code unused by the   *)
(* user or used once.  The clock readings lie between the past bound 0     *)
(* and the future bound 9 of the window.                                   *)
(***************************************************************************)

\* The discount_codes rows CreateDiscountCodeDto admits (a limit of zero
\* passes IsInt), after one earlier use of the code.
ValidationRows ==
    {[HalfOff EXCEPT !.isActive = isActive, !.startsAt = startsAt,
                     !.expiresAt = expiresAt, !.usageLimit = usageLimit,
                     !.usageCount = 1, !.perUserLimit = perUserLimit,
                     !.minPurchase = minPurchase] :
        isActive \in BOOLEAN,
        startsAt \in {{}, {0}, {9}},
        expiresAt \in {{}, {0}, {9}},
        usageLimit \in {{}, {0}, {1}, {2}},
        perUserLimit \in {{}, {0}, {1}, {2}},
        minPurchase \in {{}, {0}, {99}, {100}}}

InitValidation ==
    /\ cartItems = [u \in Users |-> IF u = "u1" THEN CartOfU1 ELSE CartOfU2]
    /\ \E d \in ValidationRows : discountCodes = [k \in {d.code} |-> d]
    /\ \E userId \in Users :
          discountUsages = {[discountCodeId |-> HalfOff.id, userId |-> userId,
                             orderId |-> 0]}
    /\ orders = EmptyTable
    /\ orderItems = EmptyTable
    /\ payments = EmptyTable
    /\ paymentWrites = [o \in OrderIds |-> 0]
    /\ calls = [c \in Calls |-> IdleCall]
    /\ deliveries = [d \in Deliveries |-> PendingDelivery]
    /\ config = FullConfig
    /\ CartAtRest

\* createOrder up to the end of its validation.
NextValidation ==
    \E c \in Calls :
        \/ ReadCart(c)
        \/ FindDiscount(c)
        \/ CountUsage(c)

SpecValidation == InitValidation /\ [][NextValidation]_vars

\* The conditions under which a code is to be accepted: every limit that
\* is not NULL counts, zero included.
Eligible(call) ==
    /\ ToUpperCase(call.code) \in DOMAIN discountCodes
    /\ LET d == discountCodes[ToUpperCase(call.code)]
       IN  /\ d.isActive
           /\ \E now \in Times :
                 /\ \A s \in d.startsAt : s <= now
                 /\ \A e \in d.expiresAt : now <= e
           /\ \A limit \in d.usageLimit : d.usageCount < limit
           /\ \A limit \in d.perUserLimit :
                 Cardinality({u \in discountUsages :
                                 u.discountCodeId = d.id /\ u.userId = call.userId})
                     < limit
           /\ \A floor \in d.minPurchase : call.subtotal >= Number(floor)

\* The request sent a code and validateAndGetDiscount has returned or
\* thrown.
Validated(call) ==
    /\ call.code # "" /\ call.cart # {}
    /\ call.pc \notin {"idle", "findDiscount", "countUsage"}

\* validateAndGetDiscount returned the row.
Accepted(call) ==
    \/ call.pc # "rejected"
    \/ call.result = "Order total cannot be zero or negative"

\* C24: validation accepts the code of a request exactly when the code
\* exists, is active, is within its window, and every limit that is set
\* (zero included) leaves room: usageCount < usageLimit, the user's usage
\* rows < perUserLimit, subtotal >= minPurchase.
C24_AcceptsExactly ==
    \A c \in Calls :
        Validated(calls[c]) => (Accepted(calls[c]) <=> Eligible(calls[c]))

(***************************************************************************)
(* Discount amounts: requests against codes of either type, with values    *)
(* of 1, 50 and 100 (per cent or EGP) and with or without a cap.           *)
(***************************************************************************)

\* The discount_codes rows: discountValue and maxDiscount are DECIMAL(10,2)
\* columns, CreateDiscountCodeDto puts no lower bound on maxDiscount.
PricingRows ==
    {[HalfOff EXCEPT !.discountType = type, !.discountValue = value,
                     !.maxDiscount = maxDiscount, !.usageLimit = {},
                     !.perUserLimit = {}] :
        type \in {"PERCENTAGE", "FIXED_AMOUNT"},
        value \in {100, 5000, 10000},
        maxDiscount \in {{}, {0}, {10}, {1000}}}

InitPricing ==
    /\ cartItems = [u \in Users |-> IF u = "u1" THEN CartOfU1 ELSE CartOfU2]
    /\ \E d \in PricingRows : discountCodes = [k \in {d.code} |-> d]
    /\ discountUsages = {}
    /\ orders = EmptyTable
    /\ orderItems = EmptyTable
    /\ payments = EmptyTable
    /\ paymentWrites = [o \in OrderIds |-> 0]
    /\ calls = [c \in Calls |-> IdleCall]
    /\ deliveries = [d \in Deliveries |-> PendingDelivery]
    /\ config = FullConfig
    /\ CartAtRest

\* createOrder up to the check of the total, for codes without a per-user
\* limit.
NextPricing ==
    \E c \in Calls :
        \/ ReadCart(c)
        \/ FindDiscount(c)

SpecPricing == InitPricing /\ [][NextPricing]_vars

\* The request has applied calculateDiscount to the code it validated.
Priced(call) ==
    /\ ~IsNull(call.discount)
    /\ \/ call.pc = "txOrder"
       \/ call.result = "Order total cannot be zero or negative"

\* The amount the discount is to have: the percentage of the subtotal,
\* capped at maxDiscount whenever maxDiscount is not NULL, or the fixed
\* value; in both cases at most the subtotal.
ExpectedDiscount(subtotal, d) ==
    LET value == Number(d.discountValue)
        pct == (subtotal * (value \div 100)) \div 10000
        capped == IF d.maxDiscount # {} /\ pct > Number(ValueOf(d.maxDiscount))
                  THEN Number(ValueOf(d.maxDiscount))
                  ELSE pct
        amount == IF d.discountType = "PERCENTAGE" THEN capped ELSE value
    IN  IF amount < subtotal THEN amount ELSE subtotal

\* C25: the discount amount of a request is min(d, subtotal), where d is
\* subtotal * value / 100 capped at maxDiscount when maxDiscount is set
\* (PERCENTAGE) or value (FIXED_AMOUNT); it never exceeds the subtotal.
C25_DiscountAmount ==
    \A c \in Calls :
        Priced(calls[c])
        => /\ calls[c].discountAmount =
                  ExpectedDiscount(calls[c].subtotal, ValueOf(calls[c].discount))
           /\ calls[c].discountAmount <= calls[c].subtotal

(***************************************************************************)
(* Minor units: payment initiation for two orders checked out with the     *)
(* half-price code, one for a cart of 1.13 and one for u2's cart of 2.49.  *)
(***************************************************************************)

\* A cart whose product was added when it cost 1.13.
CartOfOddPrice == {[id |-> "ci5", productId |-> "p1", priceAtAdd |-> 113]}

\* A request of userId whose checkout transaction with the code SAVE50 for
\* the cart has committed.
CommittedWithCode(userId, cart) ==
    [PriceOrder([IdleCall EXCEPT !.userId = userId, !.code = "SAVE50",
                                 !.cart = cart,
                                 !.product = IncludedProducts(cart, Catalogue),
                                 !.subtotal = Subtotal(cart)],
                {OncePerUser})
        EXCEPT !.pc = "committed",
               !.staged = {"order", "payment", "usage", "increment", "clear"}]

DiscountedCall(c) ==
    IF c = 1 THEN CommittedWithCode("u1", CartOfOddPrice)
    ELSE CommittedWithCode("u2", CartOfU2)

InitCents ==
    /\ cartItems = [u \in Users |-> {}]
    /\ discountCodes = [k \in {OncePerUser.code} |->
                           [OncePerUser EXCEPT !.usageCount = 2]]
    /\ discountUsages = {UsageRow(c, DiscountedCall(c)) : c \in CommittedCalls}
    /\ orders = [c \in CommittedCalls |-> OrderRow(DiscountedCall(c))]
    /\ orderItems = [c \in CommittedCalls |-> OrderItemRows(DiscountedCall(c))]
    /\ payments = [c \in CommittedCalls |-> PaymentRow(DiscountedCall(c))]
    /\ paymentWrites = [o \in OrderIds |-> 0]
    /\ calls = [c \in Calls |-> IF c \in CommittedCalls THEN DiscountedCall(c)
                                ELSE IdleCall]
    /\ deliveries = [d \in Deliveries |-> PendingDelivery]
    /\ config \in GatewayConfigs
    /\ CartAtRest

SpecCents == InitCents /\ [][NextGateway]_vars

\* C26: every amount sent to the processor for an order is the persisted
\* Payment.amount of that order in minor units, the same integer in the
\* register-order call and in the payment-key call.
C26_AmountInMinorUnits ==
    \A c \in Calls :
        \A i \in DOMAIN calls[c].gateway :
            \A cents \in calls[c].gateway[i].amount_cents :
                /\ c \in DOMAIN payments /\ cents = payments[c].amount
                /\ \A j \in DOMAIN calls[c].gateway :
                      \A other \in calls[c].gateway[j].amount_cents : other = cents

(***************************************************************************)
(* Paid amounts: deliveries signed by Paymob for order 1 (Payment.amount   *)
(* 0.99) that report the amount of the order or another one.               *)
(***************************************************************************)

\* transaction.amount_cents of a delivery.
PaidAmounts == {99, 1}

AmountPayloads ==
    {Signed("test-hmac-secret",
            [Transaction({1}, success) EXCEPT !.amount_cents = cents]) :
        cents \in PaidAmounts, success \in BOOLEAN}

ReceiveSignedWebhook(d) == Receive(d, AmountPayloads)

NextAmount ==
    \E d \in Deliveries :
        \/ ReceiveSignedWebhook(d)
        \/ FindOrder(d)
        \/ WebhookUpdateOrder(d)
        \/ WebhookUpdatePayment(d)
        \/ WebhookCommit(d)
        \/ WebhookFail(d)

SpecAmount == InitWebhook /\ [][NextAmount]_vars

\* C27: an order is PAID only when a verified success delivery for it has
\* arrived whose amount_cents is the order's Payment.amount in minor
\* units.
C27_PaidAmountMatches ==
    \A o \in DOMAIN orders :
        orders[o].status = "PAID"
        => \E d \in Deliveries :
              /\ VerifiedSuccessFor(d, o)
              /\ ValueOf(deliveries[d].payload).amount_cents = payments[o].amount

(***************************************************************************)
(* Cart and checkout together: u1 has added p1 (the cache holds the cart   *)
(* addItem returned), u2 has no cart yet; no discount code exists.         *)
(***************************************************************************)

InitCart ==
    /\ cartItems = [u \in {"u1"} |-> CartOfU1]
    /\ discountCodes = EmptyTable
    /\ discountUsages = {}
    /\ orders = EmptyTable
    /\ orderItems = EmptyTable
    /\ payments = EmptyTable
    /\ paymentWrites = [o \in OrderIds |-> 0]
    /\ calls = [c \in Calls |-> IdleCall]
    /\ deliveries = [d \in Deliveries |-> PendingDelivery]
    /\ config = FullConfig
    /\ products = Catalogue
    /\ cartCache = [u \in Users |-> IF u = "u1" THEN {CartDto(CartOfU1)} ELSE {}]
    /\ cartCalls = [k \in CartCalls |-> IdleCartCall]

\* createOrder up to the commit (no code passes the lookup) and the
\* requests to the cart.
NextCart ==
    \/ \E c \in Calls :
          \/ ReadCart(c)
          \/ FindDiscount(c)
          \/ TxCreateOrder(c)
          \/ TxCreatePayment(c)
          \/ TxClearCart(c)
          \/ TxCommit(c)
          \/ TxFail(c)
    \/ \E k \in CartCalls :
          \/ GetCart(k)
          \/ FetchCartFromDB(k)
          \/ CacheSet(k)
          \/ AddItem(k)
          \/ AddItemFindCart(k)
          \/ AddItemCreateCart(k)
          \/ AddItemCreateItem(k)
          \/ InvalidateCache(k)
          \/ AddItemGetCart(k)

SpecCart == InitCart /\ [][NextCart]_vars

\* userId has an order and no row in cart_items: the checkout has emptied
\* the cart and nothing was added since.
CheckedOutAndEmpty(userId) ==
    /\ userId \in DOMAIN cartItems /\ cartItems[userId] = {}
    /\ \E o \in DOMAIN orders : orders[o].userId = userId

\* C28: a getCart that arrives and returns once the user's checkout has
\* committed, while no item has been added again, reports zero items.
C28_NoStaleCart ==
    [][\A k \in CartCalls :
          LET call == cartCalls'[k]
          IN  (/\ cartCalls[k].pc = "idle"
               /\ call.pc = "returned" /\ call.op = "getCart"
               /\ CheckedOutAndEmpty(call.userId))
              => /\ ValueOf(call.view).itemCount = 0
                 /\ ValueOf(call.view).items = {}]_vars

\* C29: every cart item addItem has created, like every item the cart
\* held at the start, is still in the cart or was read by the checkout
\* that created an order with it.
C29_NoItemLost ==
    LET Kept(userId, item) ==
            \/ userId \in DOMAIN cartItems /\ item \in cartItems[userId]
            \/ \E o \in DOMAIN orders :
                  /\ orders[o].userId = userId
                  /\ item \in calls[o].cart
                  /\ [productId |-> item.productId, price |-> item.priceAtAdd]
                         \in orderItems[o]
    IN  /\ \A k \in CartCalls :
              \A item \in cartCalls[k].created : Kept(cartCalls[k].userId, item)
        /\ \A item \in CartOfU1 : Kept("u1", item)

\* The delivery passed verifyWebhookSignature.
PassedSignature(d) == deliveries[d].pc \notin {"pending", "unauthorized"}

\* C30: two deliveries that pass verifyWebhookSignature with the same
\* signature agree in each of the twenty signed fields; a signature valid
\* for one payload is never valid for a payload that differs from it in a
\* signed field.
C30_SignedFieldsBound ==
    \A d, e \in Deliveries :
        (/\ PassedSignature(d) /\ PassedSignature(e)
         /\ ValueOf(deliveries[d].payload).hmac = ValueOf(deliveries[e].payload).hmac)
        => \A field \in SignedFieldNames :
              ValueOf(deliveries[d].payload)[field] = ValueOf(deliveries[e].payload)[field]

\* C30 case: a genuine payload and one with another amount_cents and
\* created_at have both passed with the one signature.
C30_Witness ==
    \E d, e \in Deliveries :
        /\ PassedSignature(d) /\ PassedSignature(e)
        /\ ValueOf(deliveries[d].payload) \in GenuinePayloads
        /\ ValueOf(deliveries[e].payload) \in ShiftedPayloads
        /\ ValueOf(deliveries[d].payload).hmac = ValueOf(deliveries[e].payload).hmac
        /\ ValueOf(deliveries[d].payload).amount_cents
               # ValueOf(deliveries[e].payload).amount_cents

====
